---- MODULE Spec2Model ----
(***************************************************************************)
(* State-machine model of the confession relay bot (src/main.py): the      *)
(* moderation gate and scheduler of _schedule_post, the deferred publish    *)
(* jobs post_text / post_photo, the deletion path handle_delete and the     *)
(* owner commands.  Time is an integer number of clock ticks; a second is   *)
(* TicksPerSec ticks, so the truncations the code applies with int() are    *)
(* visible.  A dict of the program is a function whose DOMAIN is the set of *)
(* keys present.                                                            *)
(***************************************************************************)
EXTENDS Integers, Sequences, FiniteSets, TLC

\* ------------------------------------------------------------------ bounds
TicksPerSec == 2
MaxOps == 4
MaxJobs == 3
MaxAdvances == 3
\* Jobs registered in the specification of the moderation gate (SpecGate)
MaxGateJobs == 1

\* ------------------------------------------------------- program constants
POST_DELAY == 15
DELETE_COOLDOWN == 60
LINK_COOLDOWN == 14400
START_HOUR == 18
END_HOUR == 21
OWNER_ID == 1

\* The owner and one other submitter
Users == {OWNER_ID, OWNER_ID + 1}

Sec(n) == n * TicksPerSec

\* int(x) of Python on the rational n/d (d > 0): truncation toward zero
IntTrunc(n, d) == IF n >= 0 THEN n \div d ELSE -((-n) \div d)

\* dict helpers
Put(f, k, v) == [x \in (DOMAIN f) \cup {k} |-> IF x = k THEN v ELSE f[x]]
Del(f, k) == [x \in (DOMAIN f) \ {k} |-> f[x]]
EmptyDict == [x \in {} |-> 0]

\* --------------------------------------------------------------- word filter
\* A text is a sequence of one-character strings.
Lower(c) == CASE c = "B" -> "b" [] c = "A" -> "a" [] c = "D" -> "d" [] OTHER -> c
LowerText(t) == [i \in 1..Len(t) |-> Lower(t[i])]
WordChars == {"a", "b", "d", "l", "y", "h", "i", "A", "B", "D"}
IsWordAt(t, k) == k \in 1..Len(t) /\ t[k] \in WordChars
\* \b of the regular expression: exactly one side of position p is a word character
Boundary(t, p) == IsWordAt(t, p - 1) # IsWordAt(t, p)
ReSearchWord(word, t) ==
    \E i \in 1..(Len(t) - Len(word) + 1) :
        /\ SubSeq(t, i, i + Len(word) - 1) = word
        /\ Boundary(t, i)
        /\ Boundary(t, i + Len(word))
check_for_banned_words(text, words) ==
    IF text = <<>> THEN FALSE
    ELSE \E w \in words : ReSearchWord(w, LowerText(text))

TextBadDay == <<"B", "a", "d", " ", "d", "a", "y">>
TextBadly == <<"b", "a", "d", "l", "y">>
TextHi == <<"h", "i">>
Texts == {TextBadDay, TextBadly, TextHi}
WordArgs == {<<"B", "A", "D">>, <<>>}

\* ------------------------------------------------------------- active window
HourOf(t) == (t \div Sec(3600)) % 24
is_bot_active_at(hour, start, end) == start <= hour \/ hour < end
is_bot_active(t) == is_bot_active_at(HourOf(t), START_HOUR, END_HOUR)
get_seconds_until_active_SameDay(t, start) ==
    (t - (t % Sec(86400))) + Sec(3600 * start) - t

\* Lines 171-177
get_seconds_until_active_at(t, start) ==
    LET dayStart == t - (t % Sec(86400))
        target == dayStart + Sec(3600 * start)
    IN  IF HourOf(t) >= start THEN target + Sec(86400) - t ELSE target - t
get_seconds_until_active(t) == get_seconds_until_active_at(t, START_HOUR)

VARIABLES now, nadv, nops, pc,
          BANNED_USERS, USER_TIMEOUTS, KNOWN_USERS, BANNED_WORDS,
          LINKS_ENABLED, PHOTOS_ENABLED,
          user_queues, user_delete_cooldowns, user_link_cooldowns,
          jobs, last

vars == <<now, nadv, nops, pc, BANNED_USERS, USER_TIMEOUTS, KNOWN_USERS,
          BANNED_WORDS, LINKS_ENABLED, PHOTOS_ENABLED, user_queues,
          user_delete_cooldowns, user_link_cooldowns, jobs, last>>

modState == <<BANNED_USERS, USER_TIMEOUTS, BANNED_WORDS, LINKS_ENABLED, PHOTOS_ENABLED>>
paceState == <<user_queues, user_delete_cooldowns, user_link_cooldowns>>

\* The most recent handler call: its inputs, what it answered (outcome, the
\* numbers shown in the answer, the replies sent), what it computed and, for a
\* deletion, the remove operation and the log-channel record it issued.
NoCall == [op |-> "none", user |-> 0, at |-> 0, outcome |-> "none", shown |-> <<>>,
           post_type |-> "none", text |-> <<>>, has_link |-> FALSE,
           base_delay |-> 0, final_delay |-> 0,
           evicted |-> FALSE,
           origin |-> <<>>, msg_id |-> 0, removed |-> "none", audit |-> "none",
           replies |-> <<>>]

Init ==
    /\ now = 0
    /\ nadv = 0
    /\ nops = 0
    /\ pc = "idle"
    /\ BANNED_USERS = {}
    /\ USER_TIMEOUTS = EmptyDict
    /\ KNOWN_USERS = {}
    /\ BANNED_WORDS = {}
    /\ LINKS_ENABLED = TRUE
    /\ PHOTOS_ENABLED = TRUE
    /\ user_queues = EmptyDict
    /\ user_delete_cooldowns = EmptyDict
    /\ user_link_cooldowns = EmptyDict
    /\ jobs = <<>>
    /\ last = NoCall

\* ---------------------------------------------------------------- the clock
Delays == {1, Sec(POST_DELAY), Sec(DELETE_COOLDOWN)}
MinuteDelays == {Sec(60)}

\* The job queue runs a job at the instant its delay elapses: the clock does
\* not pass the due time of a job that has not run yet.
PendingDue == {jobs[i].due : i \in {k \in 1..Len(jobs) : jobs[k].pub = "none"}}
ClockAfter(d) ==
    IF \E t \in PendingDue : t < now + d
    THEN CHOOSE t \in PendingDue : \A x \in PendingDue : t <= x
    ELSE now + d

AdvanceClock(d) ==
    /\ nadv < MaxAdvances
    /\ ClockAfter(d) > now
    /\ now' = ClockAfter(d)
    /\ nadv' = nadv + 1
    /\ UNCHANGED <<nops, pc, modState, KNOWN_USERS, paceState, jobs, last>>

\* ------------------------------------------------------- _schedule_post
\* What the gate answers: the outcome, the numbers shown in the reply, evict
\* (the expired timeout entry is deleted, line 284) and stamp (the link
\* cooldown is written, line 311).
Decision(o, sh, ev, st) == [outcome |-> o, shown |-> sh, evict |-> ev, stamp |-> st]

LinkCheck_StampEarly(u, has_link, evicted) ==
    LET linked == u \in DOMAIN user_link_cooldowns
        since == IF linked THEN now - user_link_cooldowns[u] ELSE 0
    IN  IF has_link /\ ~LINKS_ENABLED
            THEN Decision("RejectLinksDisabled", <<>>, evicted, FALSE)
        ELSE IF has_link /\ linked /\ since < Sec(LINK_COOLDOWN)
            THEN Decision("RejectLinkCooldown", <<0, 0>>, evicted, TRUE)
        ELSE Decision("Accept", <<>>, evicted, has_link)

LinkCheck_CooldownFirst(u, has_link, evicted) ==
    LET linked == u \in DOMAIN user_link_cooldowns
        since == IF linked THEN now - user_link_cooldowns[u] ELSE 0
    IN  IF has_link /\ linked /\ since < Sec(LINK_COOLDOWN)
            THEN Decision("RejectLinkCooldown", <<0, 0>>, evicted, FALSE)
        ELSE IF has_link /\ ~LINKS_ENABLED
            THEN Decision("RejectLinksDisabled", <<>>, evicted, FALSE)
        ELSE Decision("Accept", <<>>, evicted, has_link)

LinkCheck_NoStamp(u, has_link, evicted) ==
    LET linked == u \in DOMAIN user_link_cooldowns
        since == IF linked THEN now - user_link_cooldowns[u] ELSE 0
        rem == Sec(LINK_COOLDOWN) - since
    IN  IF has_link /\ ~LINKS_ENABLED
            THEN Decision("RejectLinksDisabled", <<>>, evicted, FALSE)
        ELSE IF has_link /\ linked /\ since < Sec(LINK_COOLDOWN)
            THEN Decision("RejectLinkCooldown",
                          <<IntTrunc(rem, Sec(3600)), IntTrunc(rem % Sec(3600), Sec(60))>>,
                          evicted, FALSE)
        ELSE Decision("Accept", <<>>, evicted, has_link /\ ~linked)

\* Lines 299-311: the link toggle, then the link cooldown
LinkCheck(u, has_link, evicted) ==
    LET linked == u \in DOMAIN user_link_cooldowns
        since == IF linked THEN now - user_link_cooldowns[u] ELSE 0
        rem == Sec(LINK_COOLDOWN) - since
    IN  IF has_link /\ ~LINKS_ENABLED
            THEN Decision("RejectLinksDisabled", <<>>, evicted, FALSE)
        ELSE IF has_link /\ linked /\ since < Sec(LINK_COOLDOWN)
            THEN Decision("RejectLinkCooldown",
                          <<IntTrunc(rem, Sec(3600)), IntTrunc(rem % Sec(3600), Sec(60))>>,
                          evicted, FALSE)
        ELSE Decision("Accept", <<>>, evicted, has_link)

Gate_TimeoutFirst(u, post_type, text, has_link) ==
    LET timed == u \in DOMAIN USER_TIMEOUTS
        remaining == IF timed THEN USER_TIMEOUTS[u] - now ELSE 0
        evicted == timed /\ remaining <= 0
    IN  IF timed /\ remaining > 0
            THEN Decision("RejectTimeout", <<IntTrunc(remaining, Sec(60))>>, FALSE, FALSE)
        ELSE IF u \in BANNED_USERS THEN Decision("RejectBanned", <<>>, evicted, FALSE)
        ELSE IF post_type = "photo" /\ ~PHOTOS_ENABLED
            THEN Decision("RejectPhotoDisabled", <<>>, evicted, FALSE)
        ELSE IF check_for_banned_words(text, BANNED_WORDS)
            THEN Decision("RejectBannedWord", <<>>, evicted, FALSE)
        ELSE LinkCheck(u, has_link, evicted)

Gate_KeepExpired(u, post_type, text, has_link) ==
    LET timed == u \in DOMAIN USER_TIMEOUTS
        remaining == IF timed THEN USER_TIMEOUTS[u] - now ELSE 0
    IN  IF u \in BANNED_USERS THEN Decision("RejectBanned", <<>>, FALSE, FALSE)
        ELSE IF timed /\ remaining > 0
            THEN Decision("RejectTimeout", <<IntTrunc(remaining, Sec(60))>>, FALSE, FALSE)
        ELSE IF post_type = "photo" /\ ~PHOTOS_ENABLED
            THEN Decision("RejectPhotoDisabled", <<>>, FALSE, FALSE)
        ELSE IF check_for_banned_words(text, BANNED_WORDS)
            THEN Decision("RejectBannedWord", <<>>, FALSE, FALSE)
        ELSE LinkCheck(u, has_link, FALSE)

\* Lines 270-311: the checks in the order of the code
Gate(u, post_type, text, has_link) ==
    LET timed == u \in DOMAIN USER_TIMEOUTS
        remaining == IF timed THEN USER_TIMEOUTS[u] - now ELSE 0
        evicted == timed /\ remaining <= 0
    IN  IF u \in BANNED_USERS THEN Decision("RejectBanned", <<>>, FALSE, FALSE)
        ELSE IF timed /\ remaining > 0
            THEN Decision("RejectTimeout", <<IntTrunc(remaining, Sec(60))>>, FALSE, FALSE)
        ELSE IF post_type = "photo" /\ ~PHOTOS_ENABLED
            THEN Decision("RejectPhotoDisabled", <<>>, evicted, FALSE)
        ELSE IF check_for_banned_words(text, BANNED_WORDS)
            THEN Decision("RejectBannedWord", <<>>, evicted, FALSE)
        ELSE LinkCheck(u, has_link, evicted)

\* Lines 313-317
BaseDelay(u) ==
    IF ~is_bot_active(now) /\ u # OWNER_ID THEN get_seconds_until_active(now) ELSE 0

\* Lines 320-324 on a queue dict q at time t
QueueTime(q, u, t) ==
    LET stored == IF u \in DOMAIN q THEN q[u] ELSE t
    IN  IF stored < t THEN t ELSE stored
FinalDelayAt(q, u, t, base_delay) == (QueueTime(q, u, t) - t) + base_delay
FinalDelay(u, base_delay) == FinalDelayAt(user_queues, u, now, base_delay)

NextSlot_NoBacklog(t, final_delay, post_delay) == t + Sec(post_delay)

\* Line 341
NextSlot(t, final_delay, post_delay) == t + final_delay + Sec(post_delay)
Commit(q, u, t, final_delay, post_delay) == Put(q, u, NextSlot(t, final_delay, post_delay))

\* Lines 326-339: the job handed to job_queue.run_once, post_text or
\* post_photo by post_type, for the submitter's message (its text is in last),
\* registered at time at to run at time due
NewJob(u, post_type, final_delay, acked) ==
    [user |-> u, post_type |-> post_type, at |-> now,
     due |-> now + final_delay, acked |-> acked, pub |-> "none", audit |-> "none"]

RegisterJob_Twice(u, post_type, final_delay, acked) ==
    jobs \o <<NewJob(u, post_type, final_delay, acked),
              NewJob(u, post_type, final_delay, acked)>>

\* Lines 333-339: job_queue.run_once, once, in the branch of the post type
RegisterJob(u, post_type, final_delay, acked) ==
    Append(jobs, NewJob(u, post_type, final_delay, acked))

SchedulePost(u, post_type, text, has_link) ==
    LET g == Gate(u, post_type, text, has_link)
        base_delay == BaseDelay(u)
        final_delay == FinalDelay(u, base_delay)
        call == [NoCall EXCEPT !.op = "submit", !.user = u, !.at = now,
                               !.outcome = g.outcome,
                               !.shown = g.shown, !.post_type = post_type,
                               !.text = text, !.has_link = has_link,
                               !.evicted = g.evict]
    IN  /\ pc = "idle"
        /\ nops < MaxOps
        /\ g.outcome = "Accept" => Len(jobs) < MaxJobs
        /\ nops' = nops + 1
        /\ KNOWN_USERS' = KNOWN_USERS \cup {u}
        /\ USER_TIMEOUTS' = IF g.evict THEN Del(USER_TIMEOUTS, u) ELSE USER_TIMEOUTS
        /\ user_link_cooldowns' =
              IF g.stamp THEN Put(user_link_cooldowns, u, now) ELSE user_link_cooldowns
        /\ IF g.outcome = "Accept"
           THEN /\ jobs' = RegisterJob(u, post_type, final_delay, base_delay # 0)
                /\ user_queues' = Commit(user_queues, u, now, final_delay, POST_DELAY)
                /\ pc' = IF base_delay = 0 THEN "reply" ELSE "idle"
                /\ last' = [call EXCEPT !.base_delay = base_delay,
                                        !.final_delay = final_delay]
           ELSE /\ UNCHANGED <<jobs, user_queues, pc>>
                /\ last' = call
        /\ UNCHANGED <<now, nadv, BANNED_USERS, BANNED_WORDS, LINKS_ENABLED,
                       PHOTOS_ENABLED, user_delete_cooldowns>>

\* Lines 343-347: the acknowledgement of an accepted submission
ReplyAccepted ==
    /\ pc = "reply"
    /\ pc' = "idle"
    /\ jobs' = [jobs EXCEPT ![Len(jobs)].acked = TRUE]
    /\ last' = [last EXCEPT !.shown =
                  IF last.final_delay < Sec(1) THEN <<>>
                  ELSE <<IntTrunc(last.final_delay, TicksPerSec)>>,
                  !.replies = IF last.final_delay < Sec(1) THEN <<"sent">>
                              ELSE <<"queued">>]
    /\ UNCHANGED <<now, nadv, nops, modState, KNOWN_USERS, paceState>>

\* ------------------------------------------------ post_text / post_photo
\* The job queue runs a job on one of its own threads once the delay has
\* elapsed, concurrently with the handlers.  The calls of a job are steps of
\* their own: the channel publish first and, only after it has returned, the
\* writes to the log channel, all in one try block.  A job's position is held
\* in its record: pub "none" before the publish; audit "none" while the log
\* write has not been reached, "photo" between the two log writes of
\* post_photo.  A raising call ends the job (the except branch prints).
FireJob_Refund(i, pub_ok) ==
    /\ i \in 1..Len(jobs)
    /\ jobs[i].pub = "none"
    /\ jobs[i].due <= now
    /\ jobs' = [jobs EXCEPT ![i].pub = IF pub_ok THEN "ok" ELSE "fail"]
    /\ user_queues' = IF pub_ok \/ jobs[i].user \notin DOMAIN user_queues
                      THEN user_queues ELSE Del(user_queues, jobs[i].user)
    /\ UNCHANGED <<now, nadv, nops, pc, modState, KNOWN_USERS,
                   user_delete_cooldowns, user_link_cooldowns, last>>

\* Line 225 (post_text) and line 241 (post_photo): the publish in the channel
FireJob(i, pub_ok) ==
    /\ i \in 1..Len(jobs)
    /\ jobs[i].pub = "none"
    /\ jobs[i].due <= now
    /\ jobs' = [jobs EXCEPT ![i].pub = IF pub_ok THEN "ok" ELSE "fail"]
    /\ UNCHANGED <<now, nadv, nops, pc, modState, KNOWN_USERS, paceState, last>>

\* The job whose publish has returned and whose log writes are not over; the
\* published message may have been deleted from the channel meanwhile
LogPending(i) ==
    /\ i \in 1..Len(jobs)
    /\ jobs[i].pub \in {"ok", "deleted"}
    /\ jobs[i].audit \in {"none", "photo"}

\* Line 229 (post_text): the log message.  Lines 245-253 (post_photo): the
\* photo, then the log message; "partial" when the second write raises.
LogJob(i, log_ok) ==
    /\ LogPending(i)
    /\ jobs' = [jobs EXCEPT ![i].audit =
                  IF jobs[i].post_type = "photo" /\ jobs[i].audit = "none"
                  THEN (IF log_ok THEN "photo" ELSE "fail")
                  ELSE IF log_ok THEN "ok"
                  ELSE IF jobs[i].audit = "photo" THEN "partial" ELSE "fail"]
    /\ UNCHANGED <<now, nadv, nops, pc, modState, KNOWN_USERS, paceState, last>>

\* -------------------------------------------------------- handle_delete
\* Chat references are sequences of characters.  CHANNEL_ID comes from the
\* environment (line 58); the forwarded chat's id is rendered with str().
CHANNEL_ID == <<"-", "1">>
OtherChat == <<"-", "2">>
NoChat == <<>>
Origins == {NoChat, CHANNEL_ID, OtherChat}

RECURSIVE LStripAt(_)
LStripAt(s) == IF s # <<>> /\ Head(s) = "@" THEN LStripAt(Tail(s)) ELSE s

OriginMatches_Any(target_chat) == target_chat # NoChat

\* Line 360
OriginMatches(target_chat) ==
    target_chat = CHANNEL_ID \/ (<<"@">> \o LStripAt(CHANNEL_ID)) = target_chat

DeleteCooldownActive_Inclusive(u) ==
    u \in DOMAIN user_delete_cooldowns
        /\ now - user_delete_cooldowns[u] <= Sec(DELETE_COOLDOWN)

\* Lines 361-363
DeleteCooldownActive(u) ==
    u \in DOMAIN user_delete_cooldowns
        /\ now - user_delete_cooldowns[u] < Sec(DELETE_COOLDOWN)

\* Line 364: int(DELETE_COOLDOWN - elapsed seconds)
DeleteRemaining(u) ==
    IntTrunc(Sec(DELETE_COOLDOWN) - (now - user_delete_cooldowns[u]), TicksPerSec)

StampDelete_Shared(u, t) == [x \in (DOMAIN user_delete_cooldowns) \cup Users |-> t]

\* Line 370: the time stored is the local now read at line 361
StampDelete(u, t) == Put(user_delete_cooldowns, u, t)

\* The handlers run one at a time on the dispatcher thread; the calls of
\* handle_delete to the network are steps of their own, between which the
\* jobs run: pc is "del_call" while delete_message (line 369) is awaited,
\* "del_reply" while the reply to the requester (line 371) is awaited and
\* "del_log" while the log-channel write (line 388) is awaited.
\*
\* Lines 352-365: the checks.  msg_id (forward_from_message_id, line 368): the
\* index in jobs of the job that published the forwarded message, 0 for a
\* message of the channel that no job of the model published.
handle_delete(u, origin, msg_id) ==
    LET call == [NoCall EXCEPT !.op = "delete", !.user = u, !.at = now,
                               !.origin = origin, !.msg_id = msg_id]
    IN  /\ pc = "idle"
        /\ nops < MaxOps
        /\ msg_id # 0 =>
              (msg_id \in 1..Len(jobs) /\ jobs[msg_id].pub \in {"ok", "deleted"})
        /\ nops' = nops + 1
        /\ IF u \in BANNED_USERS \/ origin = NoChat
           THEN /\ last' = [call EXCEPT !.outcome =
                              IF u \in BANNED_USERS THEN "RejectBanned" ELSE "RejectOrigin"]
                /\ pc' = "idle"
           ELSE IF ~OriginMatches(origin)
           THEN /\ last' = [call EXCEPT !.outcome = "RejectOrigin"]
                /\ pc' = "idle"
           ELSE IF DeleteCooldownActive(u)
           THEN /\ last' = [call EXCEPT !.outcome = "RejectCooldown",
                                        !.shown = <<DeleteRemaining(u)>>,
                                        !.replies = <<"wait">>]
                /\ pc' = "idle"
           ELSE /\ last' = [call EXCEPT !.outcome = "Pending"]
                /\ pc' = "del_call"
        /\ UNCHANGED <<now, nadv, modState, KNOWN_USERS, paceState, jobs>>

\* Lines 369-370 and 390-391: delete_message returns and the cooldown is
\* stamped, or it raises (as it does for a message that is no longer in the
\* channel) and the requester is told
DeleteMessage(delete_ok) ==
    LET u == last.user
        msg_id == last.msg_id
        gone == msg_id # 0 /\ jobs[msg_id].pub # "ok"
    IN  /\ pc = "del_call"
        /\ IF delete_ok /\ ~gone
           THEN /\ jobs' = IF msg_id # 0
                           THEN [jobs EXCEPT ![msg_id].pub = "deleted"] ELSE jobs
                /\ user_delete_cooldowns' = StampDelete(u, last.at)
                /\ last' = [last EXCEPT !.removed = "ok"]
                /\ pc' = "del_reply"
           ELSE /\ last' = [last EXCEPT !.outcome = "Failed", !.removed = "fail",
                                        !.replies = <<"could_not_delete">>]
                /\ pc' = "idle"
                /\ UNCHANGED <<jobs, user_delete_cooldowns>>
        /\ UNCHANGED <<now, nadv, nops, modState, KNOWN_USERS, user_queues,
                       user_link_cooldowns>>

\* Lines 371 and 390-391: the reply to the requester returns or raises
DeleteReply(reply_ok) ==
    /\ pc = "del_reply"
    /\ IF reply_ok
       THEN /\ last' = [last EXCEPT !.replies = <<"deleted">>]
            /\ pc' = "del_log"
       ELSE /\ last' = [last EXCEPT !.outcome = "Failed",
                                    !.replies = <<"could_not_delete">>]
            /\ pc' = "idle"
    /\ UNCHANGED <<now, nadv, nops, modState, KNOWN_USERS, paceState, jobs>>

\* Lines 373-391: the deletion log is written to the log channel or the write
\* raises
DeleteLog(log_ok) ==
    /\ pc = "del_log"
    /\ pc' = "idle"
    /\ last' = IF log_ok
               THEN [last EXCEPT !.outcome = "Deleted", !.audit = "ok"]
               ELSE [last EXCEPT !.outcome = "Failed", !.audit = "fail",
                                 !.replies = <<"deleted", "could_not_delete">>]
    /\ UNCHANGED <<now, nadv, nops, modState, KNOWN_USERS, paceState, jobs>>

\* ----------------------------------------------------------- user commands
\* Lines 543-546: /start records the sender and greets it
start(u) ==
    /\ pc = "idle" /\ nops < MaxOps /\ nops' = nops + 1
    /\ KNOWN_USERS' = KNOWN_USERS \cup {u}
    /\ last' = [NoCall EXCEPT !.op = "start", !.user = u, !.at = now,
                              !.outcome = "done", !.replies = <<"hello">>]
    /\ UNCHANGED <<now, nadv, pc, modState, paceState, jobs>>

\* ---------------------------------------------------------- owner commands
is_owner(uid) == uid = OWNER_ID

AdminCall(inv, name) == [NoCall EXCEPT !.op = name, !.user = inv, !.at = now,
                           !.outcome = IF is_owner(inv) THEN "done" ELSE "ignored"]

toggle_links(inv) ==
    /\ pc = "idle" /\ nops < MaxOps /\ nops' = nops + 1
    /\ LINKS_ENABLED' = IF is_owner(inv) THEN ~LINKS_ENABLED ELSE LINKS_ENABLED
    /\ last' = AdminCall(inv, "toggle_links")
    /\ UNCHANGED <<now, nadv, pc, BANNED_USERS, USER_TIMEOUTS, BANNED_WORDS,
                   PHOTOS_ENABLED, KNOWN_USERS, paceState, jobs>>

toggle_photos(inv) ==
    /\ pc = "idle" /\ nops < MaxOps /\ nops' = nops + 1
    /\ PHOTOS_ENABLED' = IF is_owner(inv) THEN ~PHOTOS_ENABLED ELSE PHOTOS_ENABLED
    /\ last' = AdminCall(inv, "toggle_photos")
    /\ UNCHANGED <<now, nadv, pc, BANNED_USERS, USER_TIMEOUTS, BANNED_WORDS,
                   LINKS_ENABLED, KNOWN_USERS, paceState, jobs>>

ban_user(inv, target) ==
    /\ pc = "idle" /\ nops < MaxOps /\ nops' = nops + 1
    /\ BANNED_USERS' = IF is_owner(inv) THEN BANNED_USERS \cup {target} ELSE BANNED_USERS
    /\ last' = AdminCall(inv, "ban")
    /\ UNCHANGED <<now, nadv, pc, USER_TIMEOUTS, BANNED_WORDS, LINKS_ENABLED,
                   PHOTOS_ENABLED, KNOWN_USERS, paceState, jobs>>

unban_user(inv, target) ==
    /\ pc = "idle" /\ nops < MaxOps /\ nops' = nops + 1
    /\ BANNED_USERS' = IF is_owner(inv) THEN BANNED_USERS \ {target} ELSE BANNED_USERS
    /\ last' = AdminCall(inv, "unban")
    /\ UNCHANGED <<now, nadv, pc, USER_TIMEOUTS, BANNED_WORDS, LINKS_ENABLED,
                   PHOTOS_ENABLED, KNOWN_USERS, paceState, jobs>>

TimeoutMinutes == {0, 1}

timeout_user(inv, target, minutes) ==
    /\ pc = "idle" /\ nops < MaxOps /\ nops' = nops + 1
    /\ USER_TIMEOUTS' = IF is_owner(inv)
                        THEN Put(USER_TIMEOUTS, target, now + Sec(60 * minutes))
                        ELSE USER_TIMEOUTS
    /\ last' = AdminCall(inv, "timeout")
    /\ UNCHANGED <<now, nadv, pc, BANNED_USERS, BANNED_WORDS, LINKS_ENABLED,
                   PHOTOS_ENABLED, KNOWN_USERS, paceState, jobs>>

remove_timeout(inv, target) ==
    /\ pc = "idle" /\ nops < MaxOps /\ nops' = nops + 1
    /\ USER_TIMEOUTS' = IF is_owner(inv) /\ target \in DOMAIN USER_TIMEOUTS
                        THEN Del(USER_TIMEOUTS, target) ELSE USER_TIMEOUTS
    /\ last' = AdminCall(inv, "untimeout")
    /\ UNCHANGED <<now, nadv, pc, BANNED_USERS, BANNED_WORDS, LINKS_ENABLED,
                   PHOTOS_ENABLED, KNOWN_USERS, paceState, jobs>>

\* " ".join(context.args).lower(); an empty word raises and only the usage
\* text is sent
add_banned_word(inv, arg) ==
    /\ pc = "idle" /\ nops < MaxOps /\ nops' = nops + 1
    /\ BANNED_WORDS' = IF is_owner(inv) /\ arg # <<>>
                       THEN BANNED_WORDS \cup {LowerText(arg)} ELSE BANNED_WORDS
    /\ last' = AdminCall(inv, "addban")
    /\ UNCHANGED <<now, nadv, pc, BANNED_USERS, USER_TIMEOUTS, LINKS_ENABLED,
                   PHOTOS_ENABLED, KNOWN_USERS, paceState, jobs>>

remove_banned_word(inv, arg) ==
    /\ pc = "idle" /\ nops < MaxOps /\ nops' = nops + 1
    /\ BANNED_WORDS' = IF is_owner(inv) /\ arg # <<>>
                       THEN BANNED_WORDS \ {LowerText(arg)} ELSE BANNED_WORDS
    /\ last' = AdminCall(inv, "removeban")
    /\ UNCHANGED <<now, nadv, pc, BANNED_USERS, USER_TIMEOUTS, LINKS_ENABLED,
                   PHOTOS_ENABLED, KNOWN_USERS, paceState, jobs>>

clear_queue_DropJobs(inv) ==
    /\ pc = "idle" /\ nops < MaxOps /\ nops' = nops + 1
    /\ user_queues' = IF inv \in DOMAIN user_queues THEN Del(user_queues, inv)
                      ELSE user_queues
    /\ jobs' = SelectSeq(jobs, LAMBDA j : j.user # inv \/ j.pub # "none")
    /\ last' = [NoCall EXCEPT !.op = "clearqueue", !.user = inv, !.at = now,
                  !.outcome = IF inv \in DOMAIN user_queues THEN "cleared" ELSE "empty"]
    /\ UNCHANGED <<now, nadv, pc, modState, KNOWN_USERS, user_delete_cooldowns,
                   user_link_cooldowns>>

\* Lines 516-521: no is_owner test; the caller's own entry is deleted
clear_queue(inv) ==
    /\ pc = "idle" /\ nops < MaxOps /\ nops' = nops + 1
    /\ user_queues' = IF inv \in DOMAIN user_queues THEN Del(user_queues, inv)
                      ELSE user_queues
    /\ last' = [NoCall EXCEPT !.op = "clearqueue", !.user = inv, !.at = now,
                  !.outcome = IF inv \in DOMAIN user_queues THEN "cleared" ELSE "empty"]
    /\ UNCHANGED <<now, nadv, pc, modState, KNOWN_USERS, user_delete_cooldowns,
                   user_link_cooldowns, jobs>>

\* ------------------------------------------------------------ specification
Next ==
    \/ \E d \in Delays : AdvanceClock(d)
    \/ \E u \in Users, k \in {"text", "photo"}, t \in Texts, l \in BOOLEAN :
          SchedulePost(u, k, t, l)
    \/ ReplyAccepted
    \/ \E i \in 1..MaxJobs, p \in BOOLEAN : FireJob(i, p)
    \/ \E i \in 1..MaxJobs, a \in BOOLEAN : LogJob(i, a)
    \/ \E u \in Users, o \in Origins, m \in 0..MaxJobs : handle_delete(u, o, m)
    \/ \E b \in BOOLEAN : DeleteMessage(b)
    \/ \E b \in BOOLEAN : DeleteReply(b)
    \/ \E b \in BOOLEAN : DeleteLog(b)
    \/ \E u \in Users : start(u)
    \/ \E u \in Users : toggle_links(u)
    \/ \E u \in Users : toggle_photos(u)
    \/ \E u \in Users, t \in Users : ban_user(u, t)
    \/ \E u \in Users, t \in Users : unban_user(u, t)
    \/ \E u \in Users, t \in Users, m \in TimeoutMinutes : timeout_user(u, t, m)
    \/ \E u \in Users, t \in Users : remove_timeout(u, t)
    \/ \E u \in Users, w \in WordArgs : add_banned_word(u, w)
    \/ \E u \in Users, w \in WordArgs : remove_banned_word(u, w)
    \/ \E u \in Users : clear_queue(u)

Spec == Init /\ [][Next]_vars

\* A submitter who is not the owner
Member == OWNER_ID + 1

\* The scheduler for one submitter whose texts pass the gate, with queue
\* resets and job execution: user_queues is written by SchedulePost and
\* clear_queue only.
NextSched ==
    \/ \E d \in Delays : AdvanceClock(d)
    \/ SchedulePost(Member, "text", TextHi, FALSE)
    \/ ReplyAccepted
    \/ \E i \in 1..MaxJobs : FireJob(i, TRUE)
    \/ \E i \in 1..MaxJobs : LogJob(i, TRUE)
    \/ \E u \in Users : clear_queue(u)

SpecSched == Init /\ [][NextSched]_vars

\* The moderation gate for one submitter under the owner's moderation commands,
\* with the jobs of the accepted submissions running to their end; at most
\* MaxGateJobs submissions are accepted.
NextGate ==
    \/ \E d \in MinuteDelays : AdvanceClock(d)
    \/ \E k \in {"text", "photo"}, t \in {TextBadDay, TextBadly}, l \in BOOLEAN :
          SchedulePost(Member, k, t, l) /\ Len(jobs') <= MaxGateJobs
    \/ ReplyAccepted
    \/ \E i \in 1..MaxJobs : FireJob(i, TRUE)
    \/ \E i \in 1..MaxJobs : LogJob(i, TRUE)
    \/ toggle_links(OWNER_ID)
    \/ toggle_photos(OWNER_ID)
    \/ ban_user(OWNER_ID, Member)
    \/ \E m \in TimeoutMinutes : timeout_user(OWNER_ID, Member, m)
    \/ add_banned_word(OWNER_ID, <<"B", "A", "D">>)

SpecGate == Init /\ [][NextGate]_vars

\* The deletion path: user_delete_cooldowns is written by handle_delete only.
NextDelete ==
    \/ \E d \in Delays : AdvanceClock(d)
    \/ \E u \in Users, o \in Origins : handle_delete(u, o, 0)
    \/ \E b \in BOOLEAN : DeleteMessage(b)
    \/ \E b \in BOOLEAN : DeleteReply(b)
    \/ \E b \in BOOLEAN : DeleteLog(b)
    \/ \E t \in Users : ban_user(OWNER_ID, t)
    \/ \E t \in Users : unban_user(OWNER_ID, t)

SpecDelete == Init /\ [][NextDelete]_vars

\* The deferred publish jobs of one submitter: every outcome of the channel
\* publish and of the log write, with queue resets by the submitter.
NextPublish ==
    \/ \E d \in Delays : AdvanceClock(d)
    \/ SchedulePost(Member, "text", TextHi, FALSE)
    \/ ReplyAccepted
    \/ \E i \in 1..MaxJobs, p \in BOOLEAN : FireJob(i, p)
    \/ \E i \in 1..MaxJobs, a \in BOOLEAN : LogJob(i, a)
    \/ clear_queue(Member)

SpecPublish == Init /\ [][NextPublish]_vars

\* Timeouts of one submitter: set and removed by the owner, evaluated by the
\* submitter's submissions while the clock runs.
NextTimeout ==
    \/ \E d \in Delays : AdvanceClock(d)
    \/ \E t \in {TextHi, TextBadDay} : SchedulePost(Member, "text", t, FALSE)
    \/ ReplyAccepted
    \/ \E i \in 1..MaxJobs : FireJob(i, TRUE)
    \/ \E i \in 1..MaxJobs : LogJob(i, TRUE)
    \/ \E m \in TimeoutMinutes : timeout_user(OWNER_ID, Member, m)
    \/ remove_timeout(OWNER_ID, Member)
    \/ ban_user(OWNER_ID, Member)
    \/ add_banned_word(OWNER_ID, <<"B", "A", "D">>)

SpecTimeout == Init /\ [][NextTimeout]_vars

\* The link cooldown of one submitter who sends texts with a link and photos
\* without one, over times of the order of LINK_COOLDOWN.
LinkDelays == {1, Sec(60), Sec(LINK_COOLDOWN) - Sec(60)}

NextLink ==
    \/ \E d \in LinkDelays : AdvanceClock(d)
    \/ SchedulePost(Member, "text", TextHi, TRUE)
    \/ SchedulePost(Member, "photo", TextHi, FALSE)
    \/ ReplyAccepted
    \/ \E i \in 1..MaxJobs : FireJob(i, TRUE)
    \/ \E i \in 1..MaxJobs : LogJob(i, TRUE)
    \/ toggle_links(OWNER_ID)

SpecLink == Init /\ [][NextLink]_vars

\* Two submitters who submit texts, one of them with a link, and ask for
\* deletions of channel posts; one of them also sends /start.
PaceDelays == {Sec(POST_DELAY)}

NextPace ==
    \/ \E d \in PaceDelays : AdvanceClock(d)
    \/ SchedulePost(OWNER_ID, "text", TextHi, FALSE)
    \/ SchedulePost(Member, "text", TextHi, TRUE)
    \/ ReplyAccepted
    \/ \E i \in 1..MaxJobs : FireJob(i, TRUE)
    \/ \E i \in 1..MaxJobs : LogJob(i, TRUE)
    \/ \E u \in Users : handle_delete(u, CHANNEL_ID, 0)
    \/ DeleteMessage(TRUE)
    \/ DeleteReply(TRUE)
    \/ DeleteLog(TRUE)
    \/ start(Member)

SpecPace == Init /\ [][NextPace]_vars

\* Retraction of published posts: one submitter's texts are published and
\* either submitter forwards them back to the bot.
NextRetract ==
    \/ \E d \in Delays : AdvanceClock(d)
    \/ SchedulePost(OWNER_ID, "text", TextHi, FALSE)
    \/ ReplyAccepted
    \/ \E i \in 1..MaxJobs : FireJob(i, TRUE)
    \/ \E i \in 1..MaxJobs : LogJob(i, TRUE)
    \/ \E u \in Users, o \in {CHANNEL_ID, OtherChat}, m \in 1..MaxJobs :
          handle_delete(u, o, m)
    \/ \E b \in BOOLEAN : DeleteMessage(b)
    \/ DeleteReply(TRUE)
    \/ DeleteLog(TRUE)

SpecRetract == Init /\ [][NextRetract]_vars

\* The active window on its own: the clock stands at the first or the last
\* tick of an hour of the day and the window functions are evaluated, with the
\* configured hours (IsBotActive) or with another pair of hours (CheckWindow).
WindowInstants == {Sec(3600 * h) + o : h \in 0..23, o \in {0, Sec(3600) - 1}}
Hours == 0..23

InitWindow ==
    /\ now \in WindowInstants
    /\ nadv = 0
    /\ nops = 0
    /\ pc = "idle"
    /\ BANNED_USERS = {}
    /\ USER_TIMEOUTS = EmptyDict
    /\ KNOWN_USERS = {}
    /\ BANNED_WORDS = {}
    /\ LINKS_ENABLED = TRUE
    /\ PHOTOS_ENABLED = TRUE
    /\ user_queues = EmptyDict
    /\ user_delete_cooldowns = EmptyDict
    /\ user_link_cooldowns = EmptyDict
    /\ jobs = <<>>
    /\ last = NoCall

\* Lines 163-177 evaluated at the current instant for the hours start, end:
\* shown holds the hours, outcome the answer of is_bot_active and base_delay
\* the value of get_seconds_until_active
CheckWindow(start_hour, end_hour) ==
    /\ last' = [NoCall EXCEPT
                  !.op = "is_bot_active", !.at = now, !.shown = <<start_hour, end_hour>>,
                  !.outcome = IF is_bot_active_at(HourOf(now), start_hour, end_hour)
                              THEN "active" ELSE "inactive",
                  !.base_delay = get_seconds_until_active_at(now, start_hour)]
    /\ UNCHANGED <<now, nadv, nops, pc, modState, KNOWN_USERS, paceState, jobs>>

IsBotActive == CheckWindow(START_HOUR, END_HOUR)

NextWindow ==
    \/ IsBotActive
    \/ \E s \in Hours, e \in Hours : CheckWindow(s, e)

SpecWindow == InitWindow /\ [][NextWindow]_vars

\* ==================================================================== claims
Max(a, b) == IF a >= b THEN a ELSE b

\* A handler step of the named command
Called(name) == nops' = nops + 1 /\ last'.op = name

\* The jobs of submitter u, as indexes into jobs in acceptance order
JobsOf(u) == {i \in 1..Len(jobs) : jobs[i].user = u}
Consecutive(i, j) ==
    /\ i < j
    /\ jobs[i].user = jobs[j].user
    /\ ~\E k \in (i + 1)..(j - 1) : jobs[k].user = jobs[i].user

\* The effective Slot of u: the stored value, or now when absent or past
EffectiveSlot(q, u, t) == IF u \in DOMAIN q /\ q[u] > t THEN q[u] ELSE t

\* C1: for every submitter, any two consecutively accepted submissions have
\* publish instants (acceptance time + totalDelay) at least postDelay apart.
C1_PublishSpacing ==
    \A i \in 1..Len(jobs), j \in 1..Len(jobs) :
        Consecutive(i, j) => jobs[j].due - jobs[i].due >= Sec(POST_DELAY)

\* C2: no operation leaves a submitter's effective Slot lower than it was
\* (the committed Slot values that are still in the future never decrease).
C2_SlotNeverDecreases ==
    [][\A u \in Users :
          EffectiveSlot(user_queues', u, now') >= EffectiveSlot(user_queues, u, now)]_vars

\* C3: for a single submitter, a submission accepted earlier publishes earlier
\* (FIFO): r1 accepted before r2 implies r1's publish instant is before r2's.
C3_PublishFifo ==
    \A i \in 1..Len(jobs), j \in 1..Len(jobs) :
        (jobs[i].user = jobs[j].user /\ jobs[i].at < jobs[j].at)
            => jobs[i].due < jobs[j].due

\* C4: an accepted submission at time now with stored Slot s (absent or past
\* treated as now) and window offset w gets totalDelay = max(0, s - now) + w,
\* its job is due at now + totalDelay and the Slot becomes
\* now + totalDelay + postDelay; with postDelay = 60 and w = 0, submissions at
\* t = 0, 10, 70 get delays 0, 50, 50, publish at 0, 60, 120, Slots 60, 120, 180.
C4_Subject == OWNER_ID + 1
C4_Q0 == EmptyDict
C4_D1 == FinalDelayAt(C4_Q0, C4_Subject, Sec(0), 0)
C4_Q1 == Commit(C4_Q0, C4_Subject, Sec(0), C4_D1, 60)
C4_D2 == FinalDelayAt(C4_Q1, C4_Subject, Sec(10), 0)
C4_Q2 == Commit(C4_Q1, C4_Subject, Sec(10), C4_D2, 60)
C4_D3 == FinalDelayAt(C4_Q2, C4_Subject, Sec(70), 0)
C4_Q3 == Commit(C4_Q2, C4_Subject, Sec(70), C4_D3, 60)
C4_Example ==
    /\ <<C4_D1, C4_D2, C4_D3>> = <<Sec(0), Sec(50), Sec(50)>>
    /\ <<Sec(0) + C4_D1, Sec(10) + C4_D2, Sec(70) + C4_D3>> = <<Sec(0), Sec(60), Sec(120)>>
    /\ <<C4_Q1[C4_Subject], C4_Q2[C4_Subject], C4_Q3[C4_Subject]>>
          = <<Sec(60), Sec(120), Sec(180)>>
C4_Step ==
    \A u \in Users :
        (Called("submit") /\ last'.user = u /\ last'.outcome = "Accept") =>
            LET s == IF u \in DOMAIN user_queues THEN user_queues[u] ELSE now
                w == last'.base_delay
                totalDelay == Max(0, s - now) + w
            IN  /\ last'.final_delay = totalDelay
                /\ jobs'[Len(jobs')].due = now + totalDelay
                /\ user_queues'[u] = now + totalDelay + Sec(POST_DELAY)
C4_ScheduleFormula == [][C4_Example /\ C4_Step]_vars

\* C4 witness: a submission accepted behind a Slot that is still in the future
C4_Witness ==
    /\ last.op = "submit" /\ last.outcome = "Accept"
    /\ last.final_delay > 0
    /\ last.at > 0

\* ------------------------------------------------------------ gate claims
Range(f) == {f[x] : x \in DOMAIN f}

TimeoutActive(u) == u \in DOMAIN USER_TIMEOUTS /\ USER_TIMEOUTS[u] > now
TimeoutExpired(u) == u \in DOMAIN USER_TIMEOUTS /\ USER_TIMEOUTS[u] <= now
InLinkWindow(u) ==
    u \in DOMAIN user_link_cooldowns
        /\ now < user_link_cooldowns[u] + Sec(LINK_COOLDOWN)
HasBannedWord(t) == check_for_banned_words(t, BANNED_WORDS)

\* The rejection of the earliest violated check, in the order ban, timeout,
\* photo toggle, word filter, link check
EarliestViolation(u, k, t, l) ==
    CASE u \in BANNED_USERS -> "RejectBanned"
      [] u \notin BANNED_USERS /\ TimeoutActive(u) -> "RejectTimeout"
      [] u \notin BANNED_USERS /\ ~TimeoutActive(u) /\ k = "photo" /\ ~PHOTOS_ENABLED
            -> "RejectPhotoDisabled"
      [] u \notin BANNED_USERS /\ ~TimeoutActive(u) /\ ~(k = "photo" /\ ~PHOTOS_ENABLED)
            /\ HasBannedWord(t) -> "RejectBannedWord"
      [] OTHER -> IF l /\ ~LINKS_ENABLED THEN "RejectLinksDisabled"
                  ELSE IF l /\ InLinkWindow(u) THEN "RejectLinkCooldown"
                  ELSE "Accept"

BeforeLinkCheck == {"RejectBanned", "RejectTimeout", "RejectPhotoDisabled",
                    "RejectBannedWord"}

\* C5: the gate checks ban, timeout, photo toggle, word filter, link check in
\* this order and answers with the earliest violated check; the later checks
\* have no effect: a banned (or timed-out) submitter's Timeout entry is not
\* evicted and a rejection before the link check leaves the link cooldown alone.
C5_Step ==
    \A u \in Users :
        (Called("submit") /\ last'.user = u) =>
            /\ last'.outcome =
                  EarliestViolation(u, last'.post_type, last'.text, last'.has_link)
            /\ last'.outcome \in {"RejectBanned", "RejectTimeout"}
                  => USER_TIMEOUTS' = USER_TIMEOUTS
            /\ last'.outcome \in BeforeLinkCheck
                  => user_link_cooldowns' = user_link_cooldowns
C5_GateOrder == [][C5_Step]_vars

\* C5 witness: a banned submitter with an expired Timeout entry sent a message
\* with a banned word: the answer was the ban, the Timeout entry is still there
C5_Witness ==
    /\ last.op = "submit" /\ last.outcome = "RejectBanned"
    /\ TimeoutExpired(last.user)
    /\ HasBannedWord(last.text)

\* What a rejected submission leaves alone, apart from KNOWN_USERS
RejectedFrame(u) ==
    /\ paceState' = paceState
    /\ jobs' = jobs
    /\ <<BANNED_USERS, BANNED_WORDS, LINKS_ENABLED, PHOTOS_ENABLED>>' =
          <<BANNED_USERS, BANNED_WORDS, LINKS_ENABLED, PHOTOS_ENABLED>>
    /\ \/ USER_TIMEOUTS' = USER_TIMEOUTS
       \/ TimeoutExpired(u) /\ USER_TIMEOUTS' = Del(USER_TIMEOUTS, u)

\* C6 as stated: a rejected submission leaves Slot, link cooldown, deletion
\* cooldown and the registered jobs as they were, and its only state change is
\* the removal of an already-expired Timeout entry.
C6_OnlyEviction ==
    [][\A u \in Users :
          (Called("submit") /\ last'.user = u /\ last'.outcome # "Accept") =>
              (RejectedFrame(u) /\ KNOWN_USERS' = KNOWN_USERS)]_vars

\* C6 amended: a rejected submission leaves Slot, link cooldown, deletion
\* cooldown and the registered jobs as they were; its only state changes are
\* the removal of an already-expired Timeout entry and the recording of the
\* submitter in KNOWN_USERS.
C6_RejectedFrame ==
    [][\A u \in Users :
          (Called("submit") /\ last'.user = u /\ last'.outcome # "Accept") =>
              (RejectedFrame(u) /\ KNOWN_USERS' = KNOWN_USERS \cup {u})]_vars

\* C6 witness: a submission was rejected for its link while the submitter has
\* a Slot in the future, a link cooldown and a registered job
C6_Witness ==
    /\ last.op = "submit" /\ last.outcome = "RejectLinkCooldown"
    /\ last.user \in DOMAIN user_queues /\ user_queues[last.user] > now
    /\ JobsOf(last.user) # {}

\* C7: exactly one job is registered for each accepted submission and none
\* for a rejected one or by any other step, so the jobs registered for a
\* submitter are as many as its accepted submissions; the job carries the
\* submission (submitter, post type) and the Slot committed with it is the
\* job's due time plus postDelay.
C7_Step ==
    /\ (Called("submit") /\ last'.outcome = "Accept") =>
          /\ Len(jobs') = Len(jobs) + 1
          /\ SubSeq(jobs', 1, Len(jobs)) = jobs
          /\ LET j == jobs'[Len(jobs')]
             IN  /\ j.user = last'.user /\ j.post_type = last'.post_type
                 /\ j.at = now /\ j.pub = "none"
                 /\ user_queues'[j.user] = j.due + Sec(POST_DELAY)
    /\ ~(Called("submit") /\ last'.outcome = "Accept") => Len(jobs') = Len(jobs)
C7_OneJobPerAccept == [][C7_Step]_vars

\* C7 witness: a photo of the submitter was accepted after a text of it,
\* while its link cooldown was running
C7_Witness ==
    /\ last.op = "submit" /\ last.outcome = "Accept"
    /\ last.post_type = "photo"
    /\ Cardinality(JobsOf(last.user)) = 2
    /\ jobs[1].post_type = "text"
    /\ InLinkWindow(last.user)

\* C10: while links are off, a link-bearing submission that reaches the link
\* check is rejected whatever the link cooldown; toggling leaves every link
\* cooldown timestamp as it was, and with links on a submitter inside the
\* window is rejected with RejectLinkCooldown.
ReachesLinkCheck(u, k, t) ==
    /\ u \notin BANNED_USERS
    /\ ~TimeoutActive(u)
    /\ ~(k = "photo" /\ ~PHOTOS_ENABLED)
    /\ ~HasBannedWord(t)
C10_Step ==
    /\ \A u \in Users :
          (Called("submit") /\ last'.user = u /\ last'.has_link
              /\ ReachesLinkCheck(u, last'.post_type, last'.text)) =>
                /\ ~LINKS_ENABLED => last'.outcome = "RejectLinksDisabled"
                /\ (LINKS_ENABLED /\ InLinkWindow(u))
                      => last'.outcome = "RejectLinkCooldown"
                /\ last'.outcome # "Accept"
                      => user_link_cooldowns' = user_link_cooldowns
    /\ Called("toggle_links") =>
          /\ user_link_cooldowns' = user_link_cooldowns
          /\ is_owner(last'.user) => LINKS_ENABLED' = ~LINKS_ENABLED
C10_LinkToggle == [][C10_Step]_vars

\* C10 witness: links were just switched on again while the submitter is
\* inside the link cooldown window
C10_Witness ==
    /\ last.op = "toggle_links" /\ LINKS_ENABLED
    /\ InLinkWindow(Member)

\* -------------------------------------------------------- deletion claims
\* What a deletion attempt inside and after the cooldown window does: inside,
\* the request is over with the rejection (pc is back to "idle")
C8_Window ==
    \A u \in Users :
        (Called("delete") /\ last'.user = u /\ u \in DOMAIN user_delete_cooldowns) =>
            LET t == user_delete_cooldowns[u]
            IN  /\ now < t + Sec(DELETE_COOLDOWN) =>
                      /\ pc' = "idle"
                      /\ last'.removed = "none"
                      /\ user_delete_cooldowns' = user_delete_cooldowns
                      /\ (u \notin BANNED_USERS /\ OriginMatches(last'.origin))
                            => last'.outcome = "RejectCooldown"
                /\ now >= t + Sec(DELETE_COOLDOWN) => last'.outcome # "RejectCooldown"

\* Two successive cooldown rejections of the same submitter
C8_Retry ==
    /\ last.op = "delete" /\ last.outcome = "RejectCooldown"
    /\ Called("delete") /\ last'.outcome = "RejectCooldown"
    /\ last'.user = last.user

\* C8 as stated: inside [t, t + deleteCooldown) every attempt is rejected
\* without a remove operation, with a remaining time that strictly decreases
\* as the retry time increases; from t + deleteCooldown on the cooldown does
\* not reject.
C8_StrictlyDecreasing ==
    [][/\ C8_Window
       /\ (C8_Retry /\ last'.at > last.at) => last'.shown[1] < last.shown[1]]_vars

\* C8 amended: as stated, but the remaining time shown is in whole seconds:
\* it never increases with the retry time and strictly decreases between
\* retries at least one second apart.
C8_DeleteCooldown ==
    [][/\ C8_Window
       /\ (C8_Retry /\ last'.at >= last.at) => last'.shown[1] <= last.shown[1]
       /\ (C8_Retry /\ last'.at >= last.at + Sec(1))
             => last'.shown[1] < last.shown[1]]_vars

\* C8 witness: a retry later than the deletion was rejected by the cooldown
C8_Witness ==
    /\ last.op = "delete" /\ last.outcome = "RejectCooldown"
    /\ last.at > user_delete_cooldowns[last.user]
    /\ last.shown[1] < DELETE_COOLDOWN

\* The deletion request last is over and went past the cooldown check
DeleteAttempted == last.op = "delete" /\ pc = "idle" /\ last.removed # "none"

\* The request last has stamped the cooldown of its requester: the record
\* holds the time of the request (an older record of that very instant would
\* have made the cooldown check reject the request)
DeleteStamped ==
    /\ last.user \in DOMAIN user_delete_cooldowns
    /\ user_delete_cooldowns[last.user] = last.at

\* C9: a deletion request that ends with the requester told that the deletion
\* could not be done leaves the deletion cooldown as it was, and the cooldown
\* is stamped with now exactly when the outcome is Deleted.
C9_FailedKeepsCooldown ==
    DeleteAttempted =>
        /\ "could_not_delete" \in Range(last.replies) => ~DeleteStamped
        /\ (last.outcome = "Deleted") <=> DeleteStamped

\* ---------------------------------------------------------- window claims
\* The interval [start, end) of the hours of a day: plain when start < end,
\* around midnight when start >= end
InInterval(h, start_hour, end_hour) ==
    IF start_hour < end_hour THEN start_hour <= h /\ h < end_hour ELSE (h >= start_hour \/ h < end_hour)

\* C11: for every hour and every pair (start, end), isActive is true exactly
\* when the hour lies in [start, end), the plain interval when start < end
\* (as with the configured 18 and 21) and the wrapped one when start >= end.
C11_ActiveIffInInterval ==
    last.op = "is_bot_active" =>
        ((last.outcome = "active")
            <=> InInterval(HourOf(now), last.shown[1], last.shown[2]))

Day == Sec(86400)

\* C12: at every instant outside the window (by the test of the code or by
\* the interval [start, end)), secondsUntilActive is positive and leads to the
\* first later instant whose time of day is start:00:00, on the same day when
\* the hour is below start and on the next day otherwise, and isActive holds
\* there; with the window [06:00, 02:00) at 03:00 it is 10800 seconds.
C12_Example ==
    /\ ~is_bot_active_at(HourOf(Sec(3 * 3600)), 6, 2)
    /\ get_seconds_until_active_at(Sec(3 * 3600), 6) = Sec(10800)
C12_SecondsUntilActive ==
    /\ C12_Example
    /\ (/\ last.op = "is_bot_active"
        /\ (last.outcome = "inactive"
               \/ ~InInterval(HourOf(now), last.shown[1], last.shown[2]))) =>
          LET start_hour == last.shown[1]
              d == last.base_delay
          IN  /\ d > 0
              /\ d <= Day
              /\ (now + d) % Day = Sec(3600 * start_hour)
              /\ (now + d) \div Day =
                    (now \div Day) + (IF HourOf(now) < start_hour THEN 0 ELSE 1)
              /\ is_bot_active_at(HourOf(now + d), start_hour, last.shown[2])
              /\ InInterval(HourOf(now + d), start_hour, last.shown[2])

\* C12 witness: outside a window, at an hour not below start, the wait was
\* computed to the next day
C12_Witness ==
    /\ last.op = "is_bot_active"
    /\ ~InInterval(HourOf(now), last.shown[1], last.shown[2])
    /\ HourOf(now) > last.shown[1]
    /\ now + last.base_delay >= Day

\* C13: an accepted submission of the owner has window offset 0 at any time
\* of day, so its totalDelay is max(0, storedSlot - now); for every other
\* submitter the offset is 0 inside the window [START_HOUR, END_HOUR) and
\* secondsUntilActive(now) outside it.
C13_Step ==
    \A u \in Users :
        (Called("submit") /\ last'.user = u /\ last'.outcome = "Accept") =>
            LET s == IF u \in DOMAIN user_queues THEN user_queues[u] ELSE now
            IN  /\ is_owner(u) =>
                      /\ last'.base_delay = 0
                      /\ last'.final_delay = Max(0, s - now)
                /\ ~is_owner(u) =>
                      last'.base_delay =
                          IF InInterval(HourOf(now), START_HOUR, END_HOUR) THEN 0
                          ELSE get_seconds_until_active(now)
C13_WindowOffset == [][C13_Step]_vars

\* ------------------------------------------------------- publish claims
\* A step that runs job i: its publish, and a write of it to the log channel
Fired(i) == i \in 1..Len(jobs) /\ jobs[i].pub = "none" /\ jobs'[i].pub # "none"
Logged(i) == i \in 1..Len(jobs) /\ jobs'[i].audit # jobs[i].audit

\* C14: running a deferred publish job, whether the publish succeeds or
\* fails, leaves every Slot, the cooldown records, Timeouts, BanSet, WordSet
\* and the toggles unchanged (a failed publish does not refund the Slot), and
\* nothing is sent to the requester.
C14_Step ==
    \A i \in 1..MaxJobs :
        (Fired(i) \/ Logged(i)) =>
            /\ paceState' = paceState
            /\ modState' = modState
            /\ KNOWN_USERS' = KNOWN_USERS
            /\ last' = last /\ pc' = pc /\ nops' = nops
            /\ Len(jobs') = Len(jobs)
            /\ \A k \in 1..Len(jobs) : k # i => jobs'[k] = jobs[k]
C14_PublishLeavesState == [][C14_Step]_vars

\* C14 witness: a publish has failed while the Slot consumed by its
\* submission is still in the future
C14_Witness ==
    \E i \in 1..Len(jobs) :
        /\ jobs[i].pub = "fail"
        /\ jobs[i].user \in DOMAIN user_queues
        /\ user_queues[jobs[i].user] > now
        /\ user_queues[jobs[i].user] >= jobs[i].due + Sec(POST_DELAY)

\* C15: the publish and the audit write of a job are attempted independently
\* of each other: the audit write is attempted also when the publish has
\* failed (a job whose publish has failed is over: the exception has left the
\* try block).
C15_AuditAttemptedAfterFailedPublish ==
    \A i \in 1..Len(jobs) : jobs[i].pub = "fail" => jobs[i].audit # "none"

\* C16: clearing a submitter's Slot removes the stored Slot entry only: the
\* jobs registered stay registered with their due time, a job runs at its due
\* instant and only once, and nothing else changes.
C16_Step ==
    /\ \A u \in Users :
          (Called("clearqueue") /\ last'.user = u) =>
              /\ jobs' = jobs
              /\ user_queues' = Del(user_queues, u)
              /\ <<modState, KNOWN_USERS, user_delete_cooldowns,
                    user_link_cooldowns, now, pc>>' =
                  <<modState, KNOWN_USERS, user_delete_cooldowns,
                    user_link_cooldowns, now, pc>>
    /\ \A i \in 1..Len(jobs) :
          /\ Len(jobs') >= Len(jobs)
          /\ jobs'[i].due = jobs[i].due /\ jobs'[i].user = jobs[i].user
          /\ jobs[i].pub # "none" => jobs'[i].pub = jobs[i].pub
          /\ Fired(i) => now = jobs[i].due
          /\ jobs[i].pub = "none" => now' <= jobs[i].due
C16_ClearKeepsJobs == [][C16_Step]_vars

\* C16 witness: a job registered before the submitter cleared its Slot has
\* run after the clearing, at its due time
C16_Witness ==
    /\ last.op = "clearqueue" /\ last.outcome = "cleared"
    /\ \E i \in 1..Len(jobs) :
          /\ jobs[i].user = last.user
          /\ jobs[i].at <= last.at /\ jobs[i].due > last.at
          /\ jobs[i].pub = "ok"
          /\ now = jobs[i].due

\* C17: the acknowledgement of an accepted submission has been sent to the
\* requester before the job of the submission runs.
C17_AckBeforePublish ==
    \A i \in 1..Len(jobs) : jobs[i].pub # "none" => jobs[i].acked

\* C18: a deletion request goes through the ban check, the origin match, the
\* cooldown check and the remove operation in this order; a request of a
\* banned submitter or with an origin other than the publication channel
\* issues no remove operation, changes no state (no cooldown stamp) and writes
\* no audit record, whatever the cooldown state.
C18_Step ==
    /\ \A u \in Users :
          (Called("delete") /\ last'.user = u) =>
              LET banned == u \in BANNED_USERS
                  matches == last'.origin = CHANNEL_ID
                  cooling == /\ u \in DOMAIN user_delete_cooldowns
                             /\ now < user_delete_cooldowns[u] + Sec(DELETE_COOLDOWN)
              IN  /\ banned => last'.outcome = "RejectBanned"
                  /\ (~banned /\ ~matches) => last'.outcome = "RejectOrigin"
                  /\ (~banned /\ matches /\ cooling) => last'.outcome = "RejectCooldown"
                  /\ (banned \/ ~matches) =>
                        /\ pc' = "idle"
                        /\ last'.removed = "none"
                        /\ last'.audit = "none"
                        /\ <<modState, paceState, KNOWN_USERS, jobs>>' =
                              <<modState, paceState, KNOWN_USERS, jobs>>
                  /\ pc' # "idle" => (~banned /\ matches /\ ~cooling)
    /\ (last'.removed # "none" /\ last'.removed # last.removed) => pc = "del_call"
    /\ (last'.audit # "none" /\ last'.audit # last.audit) => pc = "del_log"
C18_DeleteOrder == [][C18_Step]_vars

\* C18 witness: a banned submitter inside its deletion cooldown forwarded a
\* post of the channel and was turned away by the ban
C18_Witness ==
    /\ last.op = "delete" /\ last.outcome = "RejectBanned"
    /\ last.origin = CHANNEL_ID
    /\ DeleteCooldownActive(last.user)

\* C19: while a submitter who is not banned has an unexpired Timeout, every
\* submission of it is rejected with RejectTimeout and registers no job; an
\* expired entry is removed by no background step: it stays in USER_TIMEOUTS
\* until the submitter's next submission is evaluated (or the owner removes
\* or replaces it), which evicts it and goes on with the remaining checks.
C19_Step ==
    /\ \A u \in Users :
          (Called("submit") /\ last'.user = u /\ u \notin BANNED_USERS) =>
              /\ TimeoutActive(u) =>
                    /\ last'.outcome = "RejectTimeout"
                    /\ last'.shown = <<(USER_TIMEOUTS[u] - now) \div Sec(60)>>
                    /\ jobs' = jobs
                    /\ USER_TIMEOUTS' = USER_TIMEOUTS
              /\ TimeoutExpired(u) =>
                    /\ USER_TIMEOUTS' = Del(USER_TIMEOUTS, u)
                    /\ last'.outcome # "RejectTimeout"
                    /\ last'.outcome =
                          EarliestViolation(u, last'.post_type, last'.text,
                                            last'.has_link)
    /\ USER_TIMEOUTS' # USER_TIMEOUTS =>
          (Called("submit") \/ Called("timeout") \/ Called("untimeout"))
C19_TimeoutLazyEviction == [][C19_Step]_vars

\* C19 witness: a submission found the submitter's Timeout entry expired,
\* evicted it and was then rejected by the word filter
C19_Witness ==
    /\ last.op = "submit" /\ last.evicted
    /\ last.outcome = "RejectBannedWord"
    /\ last.user \notin DOMAIN USER_TIMEOUTS
    /\ last.at > 0

\* C20: a submitter's link-cooldown record is written only by the evaluation
\* of a link-bearing submission that ends in Accept, and is then set to now;
\* so two consecutively accepted link-bearing submissions of a submitter are
\* at least linkCooldown apart, and a link-bearing submission inside the
\* window is rejected with the remaining time (hours and minutes).
C20_Step ==
    /\ user_link_cooldowns' # user_link_cooldowns =>
          /\ Called("submit") /\ last'.has_link /\ last'.outcome = "Accept"
          /\ user_link_cooldowns' = Put(user_link_cooldowns, last'.user, now)
    /\ \A u \in Users :
          (Called("submit") /\ last'.user = u /\ last'.has_link) =>
              /\ last'.outcome = "Accept" =>
                    /\ user_link_cooldowns'[u] = now
                    /\ u \in DOMAIN user_link_cooldowns =>
                          now - user_link_cooldowns[u] >= Sec(LINK_COOLDOWN)
              /\ (ReachesLinkCheck(u, last'.post_type, last'.text)
                    /\ LINKS_ENABLED /\ InLinkWindow(u)) =>
                    LET rem == user_link_cooldowns[u] + Sec(LINK_COOLDOWN) - now
                    IN  /\ last'.outcome = "RejectLinkCooldown"
                        /\ last'.shown = <<rem \div Sec(3600),
                                           (rem % Sec(3600)) \div Sec(60)>>
C20_LinkCooldown == [][C20_Step]_vars

\* C20 witness: a second text with a link was accepted, linkCooldown or more
\* after the first one
C20_Witness ==
    /\ last.op = "submit" /\ last.has_link /\ last.outcome = "Accept"
    /\ Cardinality({i \in JobsOf(last.user) : jobs[i].post_type = "text"}) = 2
    /\ user_link_cooldowns[last.user] = last.at
    /\ last.at >= Sec(LINK_COOLDOWN)

\* ---------------------------------------------------- independence claims
\* The pacing records of submitter u: its Slot, link cooldown and deletion
\* cooldown, each absent or a time
RecordOf(q, u) == IF u \in DOMAIN q THEN <<q[u]>> ELSE <<>>

\* A step of a submission and a step of a deletion request: the call of the
\* handler and the steps that follow a network call of it
SubmitStep == Called("submit") \/ (pc = "reply" /\ pc' = "idle")
DeleteStep ==
    Called("delete") \/ (pc \in {"del_call", "del_reply", "del_log"} /\ pc' # pc)

\* C21: the three pacing records are independent per kind and per submitter:
\* a deletion request changes no Slot and no link-cooldown record, a
\* submission changes no deletion-cooldown record, and a submission or
\* deletion of submitter A leaves the three records of every other submitter
\* as they were.
C21_Step ==
    /\ DeleteStep =>
          /\ user_queues' = user_queues
          /\ user_link_cooldowns' = user_link_cooldowns
    /\ SubmitStep => user_delete_cooldowns' = user_delete_cooldowns
    /\ \A a \in Users, b \in Users :
          ((SubmitStep \/ DeleteStep) /\ last'.user = a /\ b # a) =>
              /\ RecordOf(user_queues', b) = RecordOf(user_queues, b)
              /\ RecordOf(user_link_cooldowns', b) = RecordOf(user_link_cooldowns, b)
              /\ RecordOf(user_delete_cooldowns', b) =
                    RecordOf(user_delete_cooldowns, b)
C21_RecordsIndependent == [][C21_Step]_vars

\* C21 witness: a submitter has deleted a post while the other submitter has
\* a Slot in the future and an older deletion-cooldown record
C21_Witness ==
    /\ last.op = "delete" /\ last.outcome = "Deleted"
    /\ \E b \in Users \ {last.user} :
          /\ b \in DOMAIN user_queues /\ user_queues[b] > now
          /\ b \in DOMAIN user_delete_cooldowns
          /\ user_delete_cooldowns[b] < user_delete_cooldowns[last.user]

\* C22: a deletion request removes a channel message only when the requester
\* is the submitter whose accepted submission produced the message.
C22_OnlyAuthorRemoves ==
    (last.op = "delete" /\ last.removed = "ok" /\ last.msg_id # 0)
        => jobs[last.msg_id].user = last.user

\* The state-changing owner commands, by the op recorded for their call
AdminOps == {"toggle_links", "toggle_photos", "ban", "unban", "timeout",
             "untimeout", "addban", "removeban", "clearqueue"}

\* C23: every state-changing administrative operation (ban, unban, timeout,
\* untimeout, add or remove a banned word, toggle links, toggle photos, Slot
\* reset) invoked by a submitter other than the owner leaves BanSet, WordSet,
\* Timeouts, the toggles and all Slots unchanged: a submitter who is not the
\* owner has no operation that lowers its own Slot.
C23_Step ==
    \A name \in AdminOps :
        (Called(name) /\ ~is_owner(last'.user)) =>
            /\ modState' = modState
            /\ user_queues' = user_queues
C23_OwnerOnly == [][C23_Step]_vars

\* C24: every deferred publish job registered for a submitter other than the
\* owner is due at an instant at which the active window [START_HOUR,
\* END_HOUR) is open, for any backlog and any acceptance time.
C24_FiresInsideWindow ==
    \A i \in 1..Len(jobs) :
        ~is_owner(jobs[i].user)
            => InInterval(HourOf(jobs[i].due), START_HOUR, END_HOUR)

====
